---- MODULE Spec2Model ----
(***************************************************************************)
(* The analytics recomputation cycle of TradingAnalyticsAutomator, in its  *)
(* two variants:                                                           *)
(*   "final" = trading_analytics_automation_final.py (COUNT detector,      *)
(*             SELECT MAX(trade_id), DELETE then INSERT per table),        *)
(*   "fixed" = trading_analytics_automation_fixed.py (fetch detector,      *)
(*             INSERT OR REPLACE per table).                               *)
(*                                                                         *)
(* The SQLite database is modelled as the committed state `db` plus the    *)
(* uncommitted working copy `tx` of the connection opened by               *)
(* process_new_trades.  Python's sqlite3 opens a transaction implicitly    *)
(* before the first INSERT/UPDATE/DELETE of a connection; conn.commit()    *)
(* makes tx the committed state; leaving the `with` block by an exception  *)
(* (or losing the process) discards what is not committed.  While that     *)
(* transaction is open the database is write-locked, so the trading        *)
(* system cannot write trades.                                             *)
(*                                                                         *)
(* A derived row is [key, trades, version]: its group key, the set of      *)
(* trade ids aggregated into it, and the sum of the revisions of those     *)
(* trades as they were read (a trade's revision only grows, so the sum     *)
(* tells whether every one of them was read as it is now).  Every          *)
(* aggregate column of the row is a function of the rows read;             *)
(* CURRENT_TIMESTAMP columns are left out.                                 *)
(***************************************************************************)
EXTENDS Integers, Sequences, FiniteSets, TLC

\* ------------------------------------------------------------- bounds
MaxTrades == 2
MaxSnapshots == 2
MaxFaults == 1
MaxCorrections == 1
MaxSample == 3

\* SQL NULL, for the nullable columns of a trade (all take values >= 0 here)
NULL == -1

Variants == {"final", "fixed"}

\* The trades the trading system opens, by trade_id: the columns the
\* detectors and the group keys of the eight derivations read.
Profiles ==
  << [pair |-> "BTC/USD", strategy |-> "S1", open_hour |-> 9, open_dow |-> 1,
      trade_duration |-> 30, stop_loss_pct |-> 5, profit_pct |-> 50],
     [pair |-> "ETH/USD", strategy |-> "S2", open_hour |-> NULL, open_dow |-> NULL,
      trade_duration |-> NULL, stop_loss_pct |-> NULL, profit_pct |-> -30],
     [pair |-> "BTC/USD", strategy |-> "S2", open_hour |-> 14, open_dow |-> 6,
      trade_duration |-> 200, stop_loss_pct |-> 5, profit_pct |-> 20] >>

ProfileOf(id) == Profiles[((id - 1) % Len(Profiles)) + 1]

Derivations ==
  << "performance_rankings", "risk_metrics", "strategy_performance",
     "timing_analysis", "pair_analytics", "stop_loss_analytics",
     "duration_patterns", "bot_health_metrics" >>

TableNames == { Derivations[i] : i \in 1..Len(Derivations) }

HealthMetricNames ==
  { "overall_win_rate", "avg_profit_pct", "total_trades", "total_profit",
    "worst_loss", "best_win" }

VARIABLES
  variant,        \* which of the two source files runs
  trades,         \* the trades table: a set of rows
  next_id,        \* the next trade_id the trading system assigns
  db,             \* committed database: [tables, snapshots]
  tx,             \* working copy of the open write transaction (= db when none)
  watermark,      \* self.last_processed_trade_id
  pc,             \* where the engine is
  trade_count,    \* records_processed handed to process_new_trades
  max_trade_id,   \* the target checkpoint of the running cycle
  done,           \* how many of the eight derivations have run in this cycle
  exc,            \* the exception being handled ("" when none)
  ret,            \* last value check_for_new_trades returned ("none" before any)
  faults,         \* how many statements have raised so far
  hist,           \* history of the run, read by the properties only
  sample,         \* a closed-trade set given to one derivation's SELECT
  computed        \* the rows that SELECT returned for `sample`

vars == << variant, trades, next_id, db, tx, watermark, pc, trade_count,
           max_trade_id, done, exc, ret, faults, hist, sample, computed >>

\* ------------------------------------------------------------- SQL helpers
MaxOf(S) == IF S = {} THEN NULL ELSE CHOOSE m \in S : \A x \in S : x <= m

MinOf(S) == IF S = {} THEN NULL ELSE CHOOSE m \in S : \A x \in S : m <= x

\* ... FROM trades WHERE is_open = 0
ClosedTrades(T) == { t \in T : t.is_open = 0 }

ClosedIds(T) == { t.trade_id : t \in ClosedTrades(T) }

\* SUM(col) over rows; col is the column as a function of the row
RECURSIVE SUM(_, _)
SUM(col, rows) ==
  IF rows = {} THEN 0
  ELSE LET r == CHOOSE x \in rows : TRUE
       IN  col[r] + SUM(col, rows \ { r })

\* the revisions of the trades read, summed
Version(rows) == SUM([ t \in rows |-> t.revision ], rows)

\* SELECT ... GROUP BY: one row per value the key function `by` takes on `rows`
GroupBy(rows, by) ==
  { [key |-> k, trades |-> { t.trade_id : t \in { r \in rows : by[r] = k } },
     version |-> Version({ r \in rows : by[r] = k })]
      : k \in { by[r] : r \in rows } }

\* an aggregate SELECT without GROUP BY yields exactly one row
SingleRow(k, rows) ==
  { [key |-> k, trades |-> { t.trade_id : t \in rows },
     version |-> Version(rows)] }

RowKeys(rows) == { r.key : r \in rows }

\* The uniqueness constraint of a derived table (its CREATE TABLE is not in
\* the two source files): two rows conflict when they have the same group key.
UniqueConflict(r1, r2) == r1.key = r2.key

\* mutant of InsertOrReplace: INSERT INTO without OR REPLACE
InsertPlain(table, rows) == table \cup rows

\* INSERT OR REPLACE: a new row replaces the rows it conflicts with
InsertOrReplace(table, rows) ==
  { r \in table : \A n \in rows : ~UniqueConflict(r, n) } \cup rows

\* ------------------------------------------------------------- group keys
PairKey(t) == << t.pair >>

StrategyKey(t) == << t.strategy >>

\* mutant of DurationCategory: < for <=
DurationCategoryExclusive(d) ==
  IF d < 60 THEN "scalp"
  ELSE IF d < 480 THEN "short_term"
  ELSE IF d < 1440 THEN "day_trade"
  ELSE "swing_trade"

\* CASE WHEN trade_duration <= 60 ... <= 480 ... <= 1440 ... ELSE ... END
DurationCategory(d) ==
  IF d <= 60 THEN "scalp"
  ELSE IF d <= 480 THEN "short_term"
  ELSE IF d <= 1440 THEN "day_trade"
  ELSE "swing_trade"

DurationKey(t) == << DurationCategory(t.trade_duration) >>

HourKey(t) == << "hour_of_day", t.open_hour >>

DayKey(t) == << "day_of_week", t.open_dow >>

\* ------------------------------------------------------------- derivations
\* Each update_* gives the table's content after the derivation ran on the
\* trades table T, from its content `table` before.  The final variant runs
\* DELETE FROM <table> and then INSERT ... SELECT; the fixed variant runs
\* INSERT OR REPLACE ... SELECT only.
WithOpenDate(T) == { t \in ClosedTrades(T) : t.open_hour # NULL }

WithDuration(T) == { t \in ClosedTrades(T) : t.trade_duration # NULL }

WithStopLoss(T) == { t \in ClosedTrades(T) : t.stop_loss_pct # NULL }

\* ------------------------------------------------------------- aggregates
\* The SELECT of each derivation, column by column, on a set of closed trades.
\* profit_pct and profit_abs are fixed-point numbers in tenths (5 is 0.5, -200
\* is -20.0); a computed REAL column is a fraction num/den, and SQL NULL in such
\* a column is the fraction with den = 0.
NullValue == [ num |-> 0, den |-> 0 ]

Zero == [ num |-> 0, den |-> 1 ]

IsNull(x) == x.den = 0

IsZero(x) == x.den # 0 /\ x.num = 0

\* x = y for fractions that are not NULL
SameValue(x, y) == x.den # 0 /\ y.den # 0 /\ x.num * y.den = y.num * x.den

\* x >= y for fractions with positive denominators
AtLeast(x, y) == x.num * y.den >= y.num * x.den

\* n / NULLIF(d, 0), and a REAL division whose divisor is not zero
Divide(n, d) == IF d = 0 THEN NullValue ELSE [ num |-> n, den |-> d ]

\* AVG(col) over rows: NULL over no row
AVG(col, rows) == Divide(SUM(col, rows), Cardinality(rows))

ABS(x) == IF x < 0 THEN -x ELSE x

\* SUM(CASE WHEN profit_pct > 0 THEN 1 ELSE 0 END)
winning_case(t) == IF t.profit_pct > 0 THEN 1 ELSE 0

\* mutant of losing_case: < for <=
losing_case_negative_only(t) == IF t.profit_pct < 0 THEN 1 ELSE 0

\* SUM(CASE WHEN profit_pct <= 0 THEN 1 ELSE 0 END)
losing_case(t) == IF t.profit_pct <= 0 THEN 1 ELSE 0

\* SUM(CASE WHEN profit_abs < 0 THEN ABS(profit_abs) ELSE 0 END)
losing_volume(G) == SUM([ t \in G |-> IF t.profit_abs < 0 THEN ABS(t.profit_abs) ELSE 0 ], G)

\* SUM(CASE WHEN profit_abs > 0 THEN profit_abs ELSE 0 END)
winning_volume(G) == SUM([ t \in G |-> IF t.profit_abs > 0 THEN t.profit_abs ELSE 0 ], G)

\* CASE WHEN losing volume > 0 THEN winning volume / losing volume ELSE 0 END
profit_factor(G) ==
  IF losing_volume(G) > 0 THEN Divide(winning_volume(G), losing_volume(G)) ELSE Zero

\* AVG(CASE WHEN profit_pct > 0 THEN 1.0 ELSE 0.0 END)
win_rate(G) == AVG([ t \in G |-> winning_case(t) ], G)

\* AVG(profit_pct * profit_pct) - AVG(profit_pct) * AVG(profit_pct), as one
\* fraction over COUNT squared
variance(G) ==
  LET n  == Cardinality(G)
      s1 == SUM([ t \in G |-> t.profit_pct ], G)
      s2 == SUM([ t \in G |-> t.profit_pct * t.profit_pct ], G)
  IN  Divide(n * s2 - s1 * s1, n * n)

\* SQRT(x), kept symbolic: the value is the square root of `sqrt_of`; SQRT of
\* NULL or of a negative number is NULL
SQRT(x) == [ sqrt_of |-> IF IsNull(x) \/ x.num < 0 THEN NullValue ELSE x ]

\* CASE WHEN COUNT > 1 THEN SQRT(variance) ELSE 0 END
volatility(G) == IF Cardinality(G) > 1 THEN SQRT(variance(G)) ELSE [ sqrt_of |-> Zero ]

\* the group of rows with key k
Group(rows, by, k) == { r \in rows : by[r] = k }

\* SELECT ... FROM trades WHERE is_open = 0 GROUP BY strategy
strategy_performance_select(T) ==
  LET C  == ClosedTrades(T)
      by == [ t \in C |-> t.strategy ]
  IN  { LET G == Group(C, by, k)
        IN  [ strategy_name  |-> k,
              total_trades   |-> Cardinality(G),
              winning_trades |-> SUM([ t \in G |-> winning_case(t) ], G),
              losing_trades  |-> SUM([ t \in G |-> losing_case(t) ], G),
              win_rate       |-> win_rate(G),
              avg_profit_pct |-> AVG([ t \in G |-> t.profit_pct ], G),
              profit_factor  |-> profit_factor(G) ]
        : k \in { by[t] : t \in C } }

\* SELECT ... FROM trades WHERE is_open = 0 GROUP BY pair: the final engine
\* has the win and loss counters and price_volatility_pct, the fixed engine has
\* trade_count and volatility_score
pair_analytics_select(v, T) ==
  LET C  == ClosedTrades(T)
      by == [ t \in C |-> t.pair ]
  IN  { LET G == Group(C, by, k)
        IN  IF v = "final"
            THEN [ pair           |-> k,
                   total_trades   |-> Cardinality(G),
                   winning_trades |-> SUM([ t \in G |-> winning_case(t) ], G),
                   losing_trades  |-> SUM([ t \in G |-> losing_case(t) ], G),
                   win_rate       |-> win_rate(G),
                   volatility     |-> volatility(G) ]
            ELSE [ pair           |-> k,
                   total_trades   |-> Cardinality(G),
                   win_rate       |-> win_rate(G),
                   volatility     |-> volatility(G) ]
        : k \in { by[t] : t \in C } }

\* SUM(CASE WHEN exit_reason = 'stop_loss' THEN 1 ELSE 0 END)
sl_triggered(G) == SUM([ t \in G |-> IF t.exit_reason = "stop_loss" THEN 1 ELSE 0 ], G)

\* SUM(CASE WHEN exit_reason = 'stop_loss' AND profit_abs < 0
\*          THEN ABS(profit_abs) ELSE 0 END)
sl_loss_volume(G) ==
  SUM([ t \in G |-> IF t.exit_reason = "stop_loss" /\ t.profit_abs < 0
                    THEN ABS(t.profit_abs) ELSE 0 ], G)

\* CASE WHEN sl_triggered > 0
\*      THEN stop-loss loss volume / NULLIF(losing volume, 0) * 100 ELSE 0 END
sl_effectiveness(G) ==
  IF sl_triggered(G) > 0
  THEN LET q == Divide(sl_loss_volume(G), losing_volume(G))
       IN  [ num |-> q.num * 100, den |-> q.den ]
  ELSE Zero

\* SELECT 'overall', ... FROM trades WHERE is_open = 0: one row, whatever the
\* number of closed trades
risk_metrics_select(T) ==
  LET C == ClosedTrades(T)
  IN  { [ metric_type                 |-> "overall",
          stop_loss_triggered_count   |-> sl_triggered(C),
          stop_loss_effectiveness_pct |-> sl_effectiveness(C) ] }

\* SUM(CASE WHEN exit_reason = 'stop_loss' AND profit_pct > -10 THEN 1 ELSE 0
\* END); -10 percent is -100 tenths
sl_contained(G) ==
  SUM([ t \in G |-> IF t.exit_reason = "stop_loss" /\ t.profit_pct > -100
                    THEN 1 ELSE 0 ], G)

\* CASE WHEN sl_triggered > 0 THEN contained * 1.0 / sl_triggered * 100
\*      ELSE 0 END
effectiveness_score(G) ==
  IF sl_triggered(G) > 0
  THEN [ num |-> sl_contained(G) * 100, den |-> sl_triggered(G) ]
  ELSE Zero

\* SELECT ... GROUP BY pair of the stop-loss analysis; the final engine reads
\* the closed trades that have a stop_loss_pct, the fixed one every closed trade
stop_loss_analytics_select(v, T) ==
  LET C  == IF v = "final" THEN WithStopLoss(ClosedTrades(T)) ELSE ClosedTrades(T)
      by == [ t \in C |-> t.pair ]
  IN  { LET G == Group(C, by, k)
        IN  [ pair                 |-> k,
              total_trades         |-> Cardinality(G),
              sl_triggered_count   |-> sl_triggered(G),
              sl_effectiveness_pct |-> effectiveness_score(G) ]
        : k \in { by[t] : t \in C } }

\* ------------------------------------------------------------- health
\* SELECT COUNT, AVG(win), AVG(profit_pct), SUM(profit_abs), MIN(profit_pct),
\* MAX(profit_pct) FROM trades WHERE is_open = 0
overall_stats(T) ==
  LET C == ClosedTrades(T)
  IN  [ total_trades   |-> Cardinality(C),
        win_rate       |-> win_rate(C),
        avg_profit_pct |-> AVG([ t \in C |-> t.profit_pct ], C),
        total_profit   |-> SUM([ t \in C |-> t.profit_abs ], C),
        worst_loss     |-> MinOf({ t.profit_pct : t \in C }),
        best_win       |-> MaxOf({ t.profit_pct : t \in C }) ]

\* mutant of health_status: > for >=
health_status_strict(stats) ==
  IF /\ ~AtLeast([ num |-> 7, den |-> 10 ], stats.win_rate)
     /\ ~AtLeast([ num |-> 5, den |-> 1 ], stats.avg_profit_pct)
  THEN "HEALTHY"
  ELSE IF /\ ~AtLeast([ num |-> 5, den |-> 10 ], stats.win_rate)
          /\ ~AtLeast(Zero, stats.avg_profit_pct)
  THEN "WARNING"
  ELSE "CRITICAL"

\* if win_rate >= 0.7 and avg_profit_pct >= 0.5 ... elif win_rate >= 0.5 and
\* avg_profit_pct >= 0 ... else; 0.5 percent is 5 tenths
health_status(stats) ==
  IF /\ AtLeast(stats.win_rate, [ num |-> 7, den |-> 10 ])
     /\ AtLeast(stats.avg_profit_pct, [ num |-> 5, den |-> 1 ])
  THEN "HEALTHY"
  ELSE IF /\ AtLeast(stats.win_rate, [ num |-> 5, den |-> 10 ])
          /\ AtLeast(stats.avg_profit_pct, Zero)
  THEN "WARNING"
  ELSE "CRITICAL"

\* 'HEALTHY' if worst_loss > -20 else 'WARNING'; -20 percent is -200 tenths
worst_loss_status(worst_loss) == IF worst_loss > -200 THEN "HEALTHY" ELSE "WARNING"

\* the health_metrics list, metric_name and health_status of each gauge,
\* built only `if stats and stats[0] > 0`
bot_health_metrics_rows(T) ==
  LET stats  == overall_stats(T)
      status == health_status(stats)
  IN  IF stats.total_trades > 0
      THEN { [ metric_name |-> "overall_win_rate", health_status |-> status ],
             [ metric_name |-> "avg_profit_pct",   health_status |-> status ],
             [ metric_name |-> "total_trades",     health_status |-> "HEALTHY" ],
             [ metric_name |-> "total_profit",     health_status |-> status ],
             [ metric_name |-> "worst_loss",
               health_status |-> worst_loss_status(stats.worst_loss) ],
             [ metric_name |-> "best_win",         health_status |-> "HEALTHY" ] }
      ELSE {}

\* ------------------------------------------------------------- ranking
\* the sequences without repetition of the elements of S
Orders(S) ==
  { o \in [ 1..Cardinality(S) -> S ] : \A i, j \in DOMAIN o : o[i] = o[j] => i = j }

\* AVG(profit_pct) of each pair with a closed trade
mean_profit_pct(T) ==
  [ k \in { t.pair : t \in ClosedTrades(T) } |->
      AVG([ t \in T |-> t.profit_pct ], { t \in ClosedTrades(T) : t.pair = k }) ]

\* ORDER BY AVG(profit_pct) DESC: the orders of the pairs the sort may give,
\* pairs with the same mean in any order
RankOrders(T) ==
  LET mean == mean_profit_pct(T)
  IN  { o \in Orders(DOMAIN mean) :
          \A i, j \in DOMAIN o : i < j => AtLeast(mean[o[i]], mean[o[j]]) }

\* ROW_NUMBER() of pair k in the order o
row_number(o, k) == CHOOSE i \in DOMAIN o : o[i] = k

\* SELECT 'by_pair', pair, AVG(profit_pct), COUNT, ROW_NUMBER() OVER (ORDER BY
\* AVG(profit_pct) DESC) ... GROUP BY pair, the sort having given order o
performance_rankings_select(T, o) ==
  LET mean == mean_profit_pct(T)
  IN  { [ entity_name   |-> k,
          profit_pct    |-> mean[k],
          trade_count   |-> Cardinality({ t \in ClosedTrades(T) : t.pair = k }),
          rank_position |-> row_number(o, k) ] : k \in DOMAIN mean }

\* the same rows with the key and the trades of their group
ranked_pairs(T) ==
  LET sel == performance_rankings_select(T, CHOOSE o \in RankOrders(T) : TRUE)
  IN  { LET row == CHOOSE x \in sel : << x.entity_name >> = g.key
        IN  [ key |-> g.key, trades |-> g.trades, version |-> g.version,
              profit_pct |-> row.profit_pct, rank_position |-> row.rank_position ]
        : g \in GroupBy(ClosedTrades(T), [ t \in T |-> PairKey(t) ]) }

\* ------------------------------------------------------------- the updates
update_performance_rankings(v, table, T) ==
  IF v = "final" THEN ranked_pairs(T)
  ELSE InsertOrReplace(table, ranked_pairs(T))

update_risk_metrics(v, table, T) ==
  IF v = "final" THEN SingleRow(<< "overall" >>, ClosedTrades(T))
  ELSE InsertOrReplace(table, SingleRow(<< "overall" >>, ClosedTrades(T)))

update_strategy_performance(v, table, T) ==
  IF v = "final" THEN GroupBy(ClosedTrades(T), [t \in T |-> StrategyKey(t)])
  ELSE InsertOrReplace(table, GroupBy(ClosedTrades(T), [t \in T |-> StrategyKey(t)]))

\* fixed variant, first statement: the hour_of_day rows
timing_hour_of_day(table, T) ==
  InsertOrReplace(table, GroupBy(WithOpenDate(T), [t \in T |-> HourKey(t)]))

update_timing_analysis(v, table, T) ==
  IF v = "final" THEN SingleRow(<< "overall" >>, ClosedTrades(T))
  ELSE InsertOrReplace(timing_hour_of_day(table, T),
                       GroupBy(WithOpenDate(T), [t \in T |-> DayKey(t)]))

update_pair_analytics(v, table, T) ==
  IF v = "final" THEN GroupBy(ClosedTrades(T), [t \in T |-> PairKey(t)])
  ELSE InsertOrReplace(table, GroupBy(ClosedTrades(T), [t \in T |-> PairKey(t)]))

update_stop_loss_analytics(v, table, T) ==
  IF v = "final" THEN GroupBy(WithStopLoss(T), [t \in T |-> PairKey(t)])
  ELSE InsertOrReplace(table, GroupBy(ClosedTrades(T), [t \in T |-> PairKey(t)]))

update_duration_patterns(v, table, T) ==
  IF v = "final" THEN GroupBy(WithDuration(T), [t \in T |-> DurationKey(t)])
  ELSE InsertOrReplace(table, GroupBy(WithDuration(T), [t \in T |-> DurationKey(t)]))

\* the six gauges, inserted only `if stats and stats[0] > 0`
health_metrics(T) ==
  IF Cardinality(ClosedTrades(T)) > 0
  THEN { [key |-> << m >>, trades |-> ClosedIds(T),
           version |-> Version(ClosedTrades(T))]
           : m \in HealthMetricNames }
  ELSE {}

update_bot_health_metrics(v, table, T) ==
  IF v = "final" THEN health_metrics(T)
  ELSE InsertOrReplace(table, health_metrics(T))

\* the derivation process_new_trades calls as its n-th (by table name)
RunUpdate(name, v, table, T) ==
  CASE name = "performance_rankings" -> update_performance_rankings(v, table, T)
    [] name = "risk_metrics"         -> update_risk_metrics(v, table, T)
    [] name = "strategy_performance" -> update_strategy_performance(v, table, T)
    [] name = "timing_analysis"      -> update_timing_analysis(v, table, T)
    [] name = "pair_analytics"       -> update_pair_analytics(v, table, T)
    [] name = "stop_loss_analytics"  -> update_stop_loss_analytics(v, table, T)
    [] name = "duration_patterns"    -> update_duration_patterns(v, table, T)
    [] OTHER                         -> update_bot_health_metrics(v, table, T)

\* What a derivation that raises has already written to its table: nothing
\* (its first statement raised), or what its statements before the raising
\* one wrote: the DELETE of the final variant, the hour_of_day statement of
\* the fixed variant's timing analysis.  SQLite undoes the raising statement
\* itself, not the statements before it.
PartialWrites(name, v, table, T) ==
  IF v = "final" THEN { table, {} }
  ELSE IF name = "timing_analysis" THEN { table, timing_hour_of_day(table, T) }
  ELSE { table }

\* ------------------------------------------------------------- snapshots
NewSnapshot(snaps, count, last) ==
  Append(snaps, [id |-> Len(snaps) + 1, records_processed |-> count,
                 status |-> "processing", last_trade_id |-> last,
                 error_message |-> ""])

\* mutant of MarkCompleted: the UPDATE without its WHERE id = ?
MarkCompletedEveryRow(snaps, id, last) ==
  [ i \in 1..Len(snaps) |->
      [snaps[i] EXCEPT !.status = "completed", !.last_trade_id = last] ]

\* UPDATE analysis_snapshots SET status = 'completed', last_trade_id = ? WHERE id = ?
MarkCompleted(snaps, id, last) ==
  [ i \in 1..Len(snaps) |->
      IF snaps[i].id = id
      THEN [snaps[i] EXCEPT !.status = "completed", !.last_trade_id = last]
      ELSE snaps[i] ]

\* mutant of MarkFailed: the UPDATE without its WHERE id = ?
MarkFailedEveryRow(snaps, id, msg) ==
  [ i \in 1..Len(snaps) |->
      [snaps[i] EXCEPT !.status = "failed", !.error_message = msg] ]

\* mutant of MarkFailed: the UPDATE sets error_message and leaves the status
MarkFailedMessageOnly(snaps, id, msg) ==
  [ i \in 1..Len(snaps) |->
      IF snaps[i].id = id
      THEN [snaps[i] EXCEPT !.error_message = msg]
      ELSE snaps[i] ]

\* UPDATE analysis_snapshots SET status = 'failed', error_message = ? WHERE id = ?
MarkFailed(snaps, id, msg) ==
  [ i \in 1..Len(snaps) |->
      IF snaps[i].id = id
      THEN [snaps[i] EXCEPT !.status = "failed", !.error_message = msg]
      ELSE snaps[i] ]

CompletedIds(snaps) ==
  { snaps[i].last_trade_id : i \in { j \in 1..Len(snaps) :
        snaps[j].status = "completed" /\ snaps[j].last_trade_id # NULL } }

\* mutant of get_last_processed_trade_id: MIN for MAX
get_first_processed_trade_id(snaps, ok) ==
  IF ~ok THEN 0
  ELSE IF MinOf(CompletedIds(snaps)) = NULL THEN 0
  ELSE MinOf(CompletedIds(snaps))

\* SELECT MAX(last_trade_id) ... WHERE status = 'completed'; 0 when the
\* result is NULL or 0, and 0 when the query raises (ok = FALSE)
get_last_processed_trade_id(snaps, ok) ==
  IF ~ok THEN 0
  ELSE IF MaxOf(CompletedIds(snaps)) = NULL THEN 0
  ELSE MaxOf(CompletedIds(snaps))

\* the persisted checkpoint
Checkpoint(d) == get_last_processed_trade_id(d.snapshots, TRUE)

\* ------------------------------------------------------------- detection
\* mutant of NewTrades: trade_id >= ? for trade_id > ?
NewTradesFromWatermark(T, wm) == { t \in ClosedTrades(T) : t.trade_id >= wm }

\* ... FROM trades WHERE trade_id > ? AND is_open = 0
NewTrades(T, wm) == { t \in ClosedTrades(T) : t.trade_id > wm }

\* mutant of HasNewTrades: count >= 0 for count > 0
HasNewTradesOrNone(count) == count >= 0

\* `if count > 0:` (final), `if new_trades:` (fixed)
HasNewTrades(count) == count > 0

\* mutant of select_max_trade_id: MIN for MAX
select_min_trade_id(T) == MinOf(ClosedIds(T))

\* SELECT MAX(trade_id) FROM trades WHERE is_open = 0 (final)
select_max_trade_id(T) == MaxOf(ClosedIds(T))

\* mutant of max_new_trade_id: min for max
min_new_trade_id(new) == MinOf({ t.trade_id : t \in new })

\* max([trade[0] for trade in new_trades]) (fixed)
max_new_trade_id(new) == MaxOf({ t.trade_id : t \in new })

\* What a cycle of the final variant does on trade store T from watermark wm
\* when nothing raises and no trade closes in it: SELECT COUNT of the closed
\* trades above wm, `if count > 0`, records_processed = count, and the
\* watermark becomes SELECT MAX(trade_id) of all the closed trades.
count_detector(T, wm) ==
  LET count == Cardinality(NewTrades(T, wm))
  IN  [ run |-> HasNewTrades(count),
        records_processed |-> IF HasNewTrades(count) THEN count ELSE 0,
        watermark |-> IF HasNewTrades(count) THEN select_max_trade_id(T) ELSE wm ]

\* The same for the fixed variant: fetch the closed trades above wm,
\* `if new_trades`, records_processed = len(new_trades), and the watermark
\* becomes the max of their trade ids.
fetch_detector(T, wm) ==
  LET new_trades == NewTrades(T, wm)
  IN  [ run |-> new_trades # {},
        records_processed |-> IF new_trades # {} THEN Cardinality(new_trades) ELSE 0,
        watermark |-> IF new_trades # {} THEN max_new_trade_id(new_trades) ELSE wm ]

\* the detector of the other source file
other_detector(v, T, wm) ==
  IF v = "final" THEN fetch_detector(T, wm) ELSE count_detector(T, wm)

\* cursor.lastrowid of the snapshot INSERT
snapshot_id == Len(tx.snapshots)

\* the database is write-locked from the snapshot INSERT to the commit
Locked == pc \in { "derive", "except" }

EmptyDb == [ tables |-> [ n \in TableNames |-> {} ], snapshots |-> << >> ]

\* no SELECT has been evaluated on a sample
NoResult == [ table |-> "none", rows |-> {} ]

\* nothing has run yet in this process
NoHistory ==
  [ pre_db |-> EmptyDb, pre_watermark |-> 0,
    outcome |-> "none", prev_outcome |-> "none",
    closed_since_end |-> FALSE, closed_since_detect |-> FALSE,
    quiet_end |-> FALSE, quiet_detect |-> FALSE,
    detected |-> {} ]

Init ==
  /\ variant \in Variants
  /\ trades = {}
  /\ next_id = 1
  /\ db = EmptyDb
  /\ tx = EmptyDb
  /\ watermark = get_last_processed_trade_id(<< >>, TRUE)
  /\ pc = "idle"
  /\ trade_count = 0
  /\ max_trade_id = 0
  /\ done = 0
  /\ exc = ""
  /\ ret = "none"
  /\ faults = 0
  /\ hist = NoHistory
  /\ sample = {}
  /\ computed = NoResult

\* the history a finished cycle leaves: its outcome and the one of the cycle
\* before it, and the trades it had detected when a derivation failed in it
EndCycle(outcome) ==
  [ NoHistory EXCEPT !.outcome = outcome,
                     !.prev_outcome = hist.prev_outcome,
                     !.closed_since_detect = hist.closed_since_detect,
                     !.detected = IF outcome = "derivation_failed"
                                  THEN hist.detected ELSE {} ]

\* ------------------------------------------------------------- trading system
\* the trading system inserts a trade (is_open = 1) with the next identifier
OpenTrade ==
  /\ ~Locked
  /\ next_id <= MaxTrades
  /\ LET p == ProfileOf(next_id)
     IN trades' = trades \cup
          { [ trade_id |-> next_id, is_open |-> 1, pair |-> p.pair,
              strategy |-> p.strategy, open_hour |-> p.open_hour,
              open_dow |-> p.open_dow, trade_duration |-> p.trade_duration,
              stop_loss_pct |-> p.stop_loss_pct, profit_pct |-> p.profit_pct,
              revision |-> 0 ] }
  /\ next_id' = next_id + 1
  /\ UNCHANGED << sample, computed, variant, db, tx, watermark, pc, trade_count, max_trade_id,
                  done, exc, ret, faults, hist >>

\* the trading system closes an open trade, in any order of identifiers
CloseTrade(t) ==
  /\ ~Locked
  /\ t \in trades
  /\ t.is_open = 1
  /\ trades' = (trades \ { t }) \cup { [ t EXCEPT !.is_open = 0 ] }
  /\ hist' = [ hist EXCEPT !.closed_since_end = TRUE,
                           !.closed_since_detect = TRUE ]
  /\ UNCHANGED << sample, computed, variant, next_id, db, tx, watermark, pc, trade_count,
                  max_trade_id, done, exc, ret, faults >>

\* closed trades are deleted from the trade store between two cycles
PruneTrade(t) ==
  /\ pc = "idle"
  /\ t \in ClosedTrades(trades)
  /\ trades' = trades \ { t }
  /\ UNCHANGED << sample, computed, variant, next_id, db, tx, watermark, pc, trade_count,
                  max_trade_id, done, exc, ret, faults, hist >>

\* a closed trade is corrected between two cycles: its columns are
\* overwritten with those of profile p (the same values or others)
CorrectTrade(t, p) ==
  /\ pc = "idle"
  /\ t \in ClosedTrades(trades)
  /\ t.revision < MaxCorrections
  /\ trades' = (trades \ { t }) \cup
       { [ t EXCEPT !.pair = Profiles[p].pair,
                    !.strategy = Profiles[p].strategy,
                    !.open_hour = Profiles[p].open_hour,
                    !.open_dow = Profiles[p].open_dow,
                    !.trade_duration = Profiles[p].trade_duration,
                    !.stop_loss_pct = Profiles[p].stop_loss_pct,
                    !.profit_pct = Profiles[p].profit_pct,
                    !.revision = t.revision + 1 ] }
  /\ UNCHANGED << sample, computed, variant, next_id, db, tx, watermark, pc, trade_count,
                  max_trade_id, done, exc, ret, faults, hist >>

\* ------------------------------------------------------------- the cycle
\* the scheduler calls run_scheduled_analysis
RunScheduledAnalysis ==
  /\ pc = "idle"
  /\ Len(db.snapshots) < MaxSnapshots
  /\ pc' = "check"
  /\ hist' = [ hist EXCEPT !.pre_db = db, !.pre_watermark = watermark,
                           !.prev_outcome = hist.outcome,
                           !.quiet_end = ~hist.closed_since_end,
                           !.quiet_detect = ~hist.closed_since_detect ]
  /\ UNCHANGED << sample, computed, variant, trades, next_id, db, tx, watermark, trade_count,
                  max_trade_id, done, exc, ret, faults >>

\* check_for_new_trades: the detection query and the branch on its result
CheckForNewTrades ==
  /\ pc = "check"
  /\ LET new == NewTrades(trades, watermark)
     IN IF HasNewTrades(Cardinality(new))
        THEN /\ pc' = "process"
             /\ trade_count' = Cardinality(new)
             /\ max_trade_id' = IF variant = "fixed" THEN max_new_trade_id(new)
                                ELSE max_trade_id
             /\ ret' = ret
             /\ hist' = [ hist EXCEPT !.closed_since_detect = FALSE,
                                      !.detected = { t.trade_id : t \in new } ]
        ELSE /\ pc' = "idle"
             /\ ret' = "False"
             /\ hist' = [ EndCycle("noop") EXCEPT !.closed_since_detect = FALSE ]
             /\ UNCHANGED << trade_count, max_trade_id >>
  /\ UNCHANGED << sample, computed, variant, trades, next_id, db, tx, watermark, done, exc,
                  faults >>

\* check_for_new_trades: connecting or the detection query raises; the
\* except logs the exception and returns False
DetectionRaises ==
  /\ pc = "check"
  /\ faults < MaxFaults
  /\ faults' = faults + 1
  /\ pc' = "idle"
  /\ ret' = "False"
  /\ hist' = EndCycle("detection_failed")
  /\ UNCHANGED << sample, computed, variant, trades, next_id, db, tx, watermark, trade_count,
                  max_trade_id, done, exc >>

\* process_new_trades, final variant: SELECT MAX(trade_id)
SelectMaxTradeId ==
  /\ pc = "process"
  /\ variant = "final"
  /\ max_trade_id' = select_max_trade_id(trades)
  /\ pc' = "insert"
  /\ UNCHANGED << sample, computed, variant, trades, next_id, db, tx, watermark, trade_count,
                  done, exc, ret, hist, faults >>

\* process_new_trades: INSERT INTO analysis_snapshots ('processing'), which
\* opens the write transaction
InsertSnapshot ==
  /\ \/ pc = "insert" /\ variant = "final"
     \/ pc = "process" /\ variant = "fixed"
  /\ tx' = [ db EXCEPT !.snapshots = NewSnapshot(@, trade_count, max_trade_id) ]
  /\ pc' = "derive"
  /\ done' = 0
  /\ UNCHANGED << sample, computed, variant, trades, next_id, db, watermark, trade_count,
                  max_trade_id, exc, ret, hist, faults >>

\* the next of the eight update_* calls returns
RunDerivation ==
  /\ pc = "derive"
  /\ done < Len(Derivations)
  /\ LET name == Derivations[done + 1]
     IN tx' = [ tx EXCEPT !.tables[name] = RunUpdate(name, variant, @, trades) ]
  /\ done' = done + 1
  /\ UNCHANGED << sample, computed, variant, trades, next_id, db, watermark, pc, trade_count,
                  max_trade_id, exc, ret, hist, faults >>

\* the next of the eight update_* calls raises
DerivationRaises ==
  /\ pc = "derive"
  /\ faults < MaxFaults
  /\ faults' = faults + 1
  /\ done < Len(Derivations)
  /\ LET name == Derivations[done + 1]
     IN \E w \in PartialWrites(name, variant, tx.tables[name], trades) :
          tx' = [ tx EXCEPT !.tables[name] = w ]
  /\ exc' = "derivation failed"
  /\ pc' = "except"
  /\ UNCHANGED << sample, computed, variant, trades, next_id, db, watermark, trade_count,
                  max_trade_id, done, ret, hist >>

\* all eight returned: the watermark is assigned, the snapshot is marked
\* 'completed' and conn.commit() succeeds; check_for_new_trades returns True
CommitCompleted ==
  /\ pc = "derive"
  /\ done = Len(Derivations)
  /\ watermark' = max_trade_id
  /\ db' = [ tx EXCEPT !.snapshots =
                 MarkCompleted(@, snapshot_id, max_trade_id) ]
  /\ tx' = db'
  /\ pc' = "idle"
  /\ ret' = "True"
  /\ trade_count' = 0
  /\ max_trade_id' = 0
  /\ done' = 0
  /\ hist' = EndCycle("completed")
  /\ UNCHANGED << sample, computed, variant, trades, next_id, exc, faults >>

\* all eight returned and the watermark is assigned, then the status UPDATE
\* raises (updated = FALSE), or it is applied on the connection and
\* conn.commit() raises (updated = TRUE)
CommitRaises(updated) ==
  /\ pc = "derive"
  /\ faults < MaxFaults
  /\ faults' = faults + 1
  /\ done = Len(Derivations)
  /\ watermark' = max_trade_id
  /\ tx' = IF updated
           THEN [ tx EXCEPT !.snapshots =
                    MarkCompleted(@, snapshot_id, max_trade_id) ]
           ELSE tx
  /\ exc' = "commit failed"
  /\ pc' = "except"
  /\ UNCHANGED << sample, computed, variant, trades, next_id, db, trade_count,
                  max_trade_id, done, ret, hist >>

\* the inner except: the snapshot is marked 'failed' with str(e) and
\* conn.commit() commits the whole open transaction (committed = TRUE), or
\* that fails too and nothing is committed; the outer except logs the
\* exception and check_for_new_trades returns True
HandleFailure(committed) ==
  /\ pc = "except"
  /\ db' = IF committed
           THEN [ tx EXCEPT !.snapshots = MarkFailed(@, snapshot_id, exc) ]
           ELSE db
  /\ tx' = db'
  /\ pc' = "idle"
  /\ ret' = "True"
  /\ exc' = ""
  /\ trade_count' = 0
  /\ max_trade_id' = 0
  /\ done' = 0
  /\ hist' = EndCycle(IF exc = "derivation failed" THEN "derivation_failed"
                      ELSE "commit_failed")
  /\ UNCHANGED << sample, computed, variant, trades, next_id, watermark, faults >>

\* the process stops: what is not committed is lost
Crash ==
  /\ pc # "stopped"
  /\ pc' = "stopped"
  /\ tx' = db
  /\ exc' = ""
  /\ trade_count' = 0
  /\ max_trade_id' = 0
  /\ done' = 0
  /\ ret' = "none"
  /\ hist' = NoHistory
  /\ UNCHANGED << sample, computed, variant, trades, next_id, db, watermark, faults >>

\* the process starts again: __init__ reads the watermark
Restart(ok) ==
  /\ pc = "stopped"
  /\ watermark' = get_last_processed_trade_id(db.snapshots, ok)
  /\ pc' = "idle"
  /\ UNCHANGED << sample, computed, variant, trades, next_id, db, tx, trade_count,
                  max_trade_id, done, exc, ret, hist, faults >>

Engine ==
  \/ RunScheduledAnalysis
  \/ CheckForNewTrades
  \/ DetectionRaises
  \/ SelectMaxTradeId
  \/ InsertSnapshot
  \/ RunDerivation
  \/ DerivationRaises
  \/ CommitCompleted
  \/ \E updated \in BOOLEAN : CommitRaises(updated)
  \/ \E committed \in BOOLEAN : HandleFailure(committed)
  \/ Crash
  \/ \E ok \in BOOLEAN : Restart(ok)

Next ==
  \/ Engine
  \/ OpenTrade
  \/ \E t \in trades : CloseTrade(t)

Spec == Init /\ [][Next]_vars

\* the same, with closed trades pruned from the trade store between cycles
NextPrune ==
  \/ Next
  \/ \E t \in trades : PruneTrade(t)

SpecPrune == Init /\ [][NextPrune]_vars

\* the same as Spec, with closed trades corrected between cycles
NextCorrect ==
  \/ Next
  \/ \E t \in trades : \E p \in 1..Len(Profiles) : CorrectTrade(t, p)

SpecCorrect == Init /\ [][NextCorrect]_vars

\* the cycle when neither the detection, nor a derivation, nor the commit
\* raises and the process is not stopped
EngineNoFailure ==
  \/ RunScheduledAnalysis
  \/ CheckForNewTrades
  \/ SelectMaxTradeId
  \/ InsertSnapshot
  \/ RunDerivation
  \/ CommitCompleted

NextNoFailure ==
  \/ EngineNoFailure
  \/ OpenTrade
  \/ \E t \in trades : CloseTrade(t)

\* the scheduler keeps calling run_scheduled_analysis and each call runs to
\* its end; the trading system opens and closes trades when it wants
SpecNoFailure == Init /\ [][NextNoFailure]_vars /\ WF_vars(EngineNoFailure)

\* ------------------------------------------------------------- samples
\* closed-trade sets for the SELECTs above: a trade's pair, profit and exit
\* reason vary; profit_abs is profit_pct of a stake of 100
SamplePairs == { "BTC/USD", "ETH/USD" }

ProfitValues == { -200, -3, 0, 5 }

ExitReasons == { "stop_loss", "roi" }

SampleTrade(id, pair, profit, reason, duration) ==
  [ trade_id |-> id, is_open |-> 0, pair |-> pair,
    strategy |-> IF pair = "BTC/USD" THEN "S1" ELSE "S2",
    profit_pct |-> profit, profit_abs |-> profit, exit_reason |-> reason,
    trade_duration |-> duration, stop_loss_pct |-> 5 ]

AddSample(pair, profit, reason) ==
  /\ computed = NoResult
  /\ Cardinality(sample) < MaxSample
  /\ sample' = sample \cup { SampleTrade(Cardinality(sample) + 1, pair, profit, reason, 30) }
  /\ UNCHANGED << computed, variant, trades, next_id, db, tx, watermark, pc,
                  trade_count, max_trade_id, done, exc, ret, faults, hist >>

\* one derivation's SELECT evaluated on the sample
Select(table, rows) ==
  /\ computed = NoResult
  /\ computed' = [ table |-> table, rows |-> rows ]
  /\ UNCHANGED << sample, variant, trades, next_id, db, tx, watermark, pc,
                  trade_count, max_trade_id, done, exc, ret, faults, hist >>

SelectStrategyPerformance ==
  Select("strategy_performance", strategy_performance_select(sample))

SelectPairAnalytics == Select("pair_analytics", pair_analytics_select(variant, sample))

SelectRiskMetrics == Select("risk_metrics", risk_metrics_select(sample))

SelectStopLossAnalytics ==
  Select("stop_loss_analytics", stop_loss_analytics_select(variant, sample))

SelectBotHealthMetrics == Select("bot_health_metrics", bot_health_metrics_rows(sample))

SelectPerformanceRankings(o) ==
  Select("performance_rankings", performance_rankings_select(sample, o))

NextFormulas ==
  \/ \E pair \in SamplePairs : \E profit \in ProfitValues : \E reason \in ExitReasons :
       AddSample(pair, profit, reason)
  \/ SelectStrategyPerformance
  \/ SelectPairAnalytics
  \/ SelectRiskMetrics
  \/ SelectStopLossAnalytics
  \/ SelectBotHealthMetrics
  \/ \E o \in RankOrders(sample) : SelectPerformanceRankings(o)

SpecFormulas == Init /\ [][NextFormulas]_vars

\* ------------------------------------------------------------- durations
\* SELECT ... FROM trades WHERE is_open = 0 AND trade_duration IS NOT NULL
\* GROUP BY CASE ... END
duration_patterns_select(T) ==
  LET C  == WithDuration(ClosedTrades(T))
      by == [ t \in C |-> DurationCategory(t.trade_duration) ]
  IN  { LET G == Group(C, by, k)
        IN  [ duration_category    |-> k,
              min_duration_minutes |-> MinOf({ t.trade_duration : t \in G }),
              max_duration_minutes |-> MaxOf({ t.trade_duration : t \in G }),
              trade_count          |-> Cardinality(G) ]
        : k \in { by[t] : t \in C } }

\* trade_duration of the sample trades, in minutes: none, and the values around
\* the category boundaries
DurationValues == { NULL, 30, 60, 61, 480, 481, 1440, 1441 }

AddDurationSample(duration) ==
  /\ computed = NoResult
  /\ Cardinality(sample) < MaxSample
  /\ sample' = sample \cup { SampleTrade(Cardinality(sample) + 1, "BTC/USD", 0, "roi", duration) }
  /\ UNCHANGED << computed, variant, trades, next_id, db, tx, watermark, pc,
                  trade_count, max_trade_id, done, exc, ret, faults, hist >>

SelectDurationPatterns == Select("duration_patterns", duration_patterns_select(sample))

NextDuration ==
  \/ \E duration \in DurationValues : AddDurationSample(duration)
  \/ SelectDurationPatterns

SpecDuration == Init /\ [][NextDuration]_vars

\* ------------------------------------------------------------- properties
\* steps of the engine, recognised by the program counter
DetectionStep == pc = "check" /\ pc' \in { "process", "idle" }

CompletedStep == pc = "derive" /\ pc' = "idle"

FailureCommittedStep == pc = "except" /\ HandleFailure(TRUE)

CycleEnds == pc \notin { "idle", "stopped" } /\ pc' = "idle"

LastSnapshot(d) == d.snapshots[Len(d.snapshots)]

\* the snapshot table of d is the one of d0 plus one row
OneSnapshotAdded(d0, d) ==
  /\ Len(d.snapshots) = Len(d0.snapshots) + 1
  /\ SubSeq(d.snapshots, 1, Len(d0.snapshots)) = d0.snapshots

\* C1: when a derivation raises, the state committed at the end of the cycle
\* has the eight analytics tables and the checkpoint of before the cycle, and
\* one more snapshot row, 'failed' with a non-empty error_message.
C1_AtomicityUnderFailure ==
  [][ (FailureCommittedStep /\ exc = "derivation failed") =>
        /\ db'.tables = hist.pre_db.tables
        /\ Checkpoint(db') = Checkpoint(hist.pre_db)
        /\ watermark' = hist.pre_watermark
        /\ OneSnapshotAdded(hist.pre_db, db')
        /\ LastSnapshot(db').status = "failed"
        /\ LastSnapshot(db').error_message # "" ]_vars

\* C2 (as claimed): over no-op, successful and failed cycles and restarts,
\* neither the watermark nor the persisted checkpoint ever decreases.
C2_CheckpointMonotonic ==
  [][ watermark' >= watermark /\ Checkpoint(db') >= Checkpoint(db) ]_vars

\* C2 (amended): the persisted checkpoint never decreases, and the watermark
\* never decreases while a process runs; a restart sets the watermark to the
\* persisted checkpoint, or to 0 when the read fails.
C2_CheckpointMonotonicAmended ==
  [][ /\ Checkpoint(db') >= Checkpoint(db)
      /\ pc # "stopped" => watermark' >= watermark
      /\ (pc = "stopped" /\ pc' = "idle") =>
            watermark' \in { 0, Checkpoint(db) } ]_vars

\* two completed cycles have advanced the watermark twice
C2_Witness ==
  /\ pc = "idle"
  /\ Len(db.snapshots) = 2
  /\ db.snapshots[1].status = "completed"
  /\ db.snapshots[2].status = "completed"
  /\ db.snapshots[1].last_trade_id = 1
  /\ watermark = 2
  /\ Checkpoint(db) = 2

\* the group keys the closed trades of T give a derived table
CurrentKeys(name, T) ==
  CASE name \in { "performance_rankings", "pair_analytics", "stop_loss_analytics" }
         -> { PairKey(t) : t \in ClosedTrades(T) }
    [] name = "strategy_performance" -> { StrategyKey(t) : t \in ClosedTrades(T) }
    [] name = "duration_patterns" -> { DurationKey(t) : t \in WithDuration(T) }
    [] name = "timing_analysis"
         -> { HourKey(t) : t \in WithOpenDate(T) } \cup
            { DayKey(t) : t \in WithOpenDate(T) } \cup { << "overall" >> }
    [] OTHER -> { << "overall" >> } \cup { << m >> : m \in HealthMetricNames }

\* C3: after every successful cycle, in each variant, no derived table holds
\* a row whose group key has no closed trade in the current trade store.
C3_NoStaleRows ==
  [][ CompletedStep =>
        \A n \in TableNames : RowKeys(db'.tables[n]) \subseteq CurrentKeys(n, trades') ]_vars

\* the trades aggregated into a table
Aggregated(table) == UNION { r.trades : r \in table }

\* the tables whose SELECT reads every closed trade (no further WHERE)
UnfilteredTables ==
  { "performance_rankings", "risk_metrics", "strategy_performance",
    "pair_analytics", "bot_health_metrics" }

\* C4: after every successful cycle the trades aggregated into the derived
\* tables are exactly the closed trades with trade_id <= the committed
\* checkpoint, also when trades close between the detection query and the
\* derivations.
C4_AnalyticsMatchCheckpoint ==
  [][ CompletedStep =>
        \A n \in UnfilteredTables :
          Aggregated(db'.tables[n]) =
            { i \in ClosedIds(trades') : i <= Checkpoint(db') } ]_vars

C6_NoOpDetection ==
  [][ (DetectionStep /\ NewTrades(trades, watermark) = {}) =>
        /\ ret' = "False"
        /\ pc' = "idle"
        /\ db' = db
        /\ tx' = tx
        /\ watermark' = watermark ]_vars

\* a cycle was a no-op with the watermark at the maximum closed trade_id
C6_Witness ==
  /\ pc = "idle"
  /\ hist.outcome = "noop"
  /\ ret = "False"
  /\ watermark > 0
  /\ watermark = MaxOf(ClosedIds(trades))

C8_FailurePropagated ==
  (pc = "idle" /\ hist.outcome = "derivation_failed") => ret # "True"

\* C9: until a cycle commits, the persisted state is the pre-cycle state (so
\* a process that stops there leaves it), and the persisted analytics change
\* only by the commit of all eight derivations together with the cycle's
\* 'completed' snapshot.
C9_CrashConsistency ==
  [][ /\ pc \in { "check", "process", "insert", "derive", "except" } =>
            db = hist.pre_db
      /\ (pc \in { "check", "process", "insert", "derive", "except" }
            /\ pc' = "stopped") => db' = hist.pre_db
      /\ db'.tables # db.tables =>
            /\ done = Len(Derivations)
            /\ OneSnapshotAdded(db, db')
            /\ LastSnapshot(db').status = "completed" ]_vars

\* the last_trade_id of the most recently created 'completed' snapshot
MostRecentCompleted(snaps) ==
  IF { i \in 1..Len(snaps) : snaps[i].status = "completed" } = {} THEN 0
  ELSE snaps[MaxOf({ i \in 1..Len(snaps) : snaps[i].status = "completed" })].last_trade_id

\* C10: get_last_processed_trade_id returns the last_trade_id of the most
\* recently created 'completed' snapshot (its MAX agrees with it on every
\* committed snapshot table), 0 when there is none, and 0 when the query
\* fails.
C10_ReadWatermark ==
  [][ /\ get_last_processed_trade_id(db.snapshots, TRUE) = MostRecentCompleted(db.snapshots)
      /\ get_last_processed_trade_id(db'.snapshots, TRUE) = MostRecentCompleted(db'.snapshots)
      /\ \A ok \in BOOLEAN :
           Restart(ok) => watermark' = IF ok THEN MostRecentCompleted(db.snapshots)
                                       ELSE 0 ]_vars

\* a restarted process whose read failed starts from 0 although two
\* snapshots with different last_trade_id are completed
C10_Witness ==
  /\ pc = "idle"
  /\ Len(db.snapshots) = 2
  /\ db.snapshots[1].status = "completed"
  /\ db.snapshots[2].status = "completed"
  /\ db.snapshots[1].last_trade_id # db.snapshots[2].last_trade_id
  /\ watermark = 0

\* the committed snapshot rows of d0 are rows of d, unchanged
SnapshotsKept(d0, d) ==
  /\ Len(d.snapshots) >= Len(d0.snapshots)
  /\ SubSeq(d.snapshots, 1, Len(d0.snapshots)) = d0.snapshots

\* a cycle that detected new trades ends
DetectingCycleEnds == pc \in { "derive", "except" } /\ pc' = "idle"

C13_WatermarkAdvanceOrdering ==
  [][ /\ (watermark' # watermark /\ pc # "stopped") =>
            /\ done = Len(Derivations)
            /\ CompletedStep
            /\ OneSnapshotAdded(db, db')
            /\ LastSnapshot(db').status = "completed"
      /\ (pc = "except" /\ exc = "commit failed" /\ pc' = "idle") =>
            watermark' = hist.pre_watermark ]_vars

\* the group key a trade has in a table whose SELECT reads every closed trade
TradeKey(n, t) ==
  CASE n \in { "performance_rankings", "pair_analytics" } -> PairKey(t)
    [] n = "strategy_performance" -> StrategyKey(t)
    [] n = "risk_metrics" -> << "overall" >>

\* row r was computed from the trades of T it aggregates as they are now
ReadAsNow(r, T) == r.version = Version({ t \in ClosedTrades(T) : t.trade_id \in r.trades })

\* C14: after every successful cycle, every closed trade of the store, also
\* one at or below the pre-cycle watermark, is aggregated into every table
\* whose SELECT reads all closed trades, as the trade is now; a trade at or
\* below the pre-cycle watermark that was changed since is in no row as it
\* was before (under its former group key or in its former revision).
C14_FullHistoryRecompute ==
  [][ CompletedStep =>
        \A n \in UnfilteredTables : \A t \in ClosedTrades(trades') :
          /\ \E r \in db'.tables[n] : t.trade_id \in r.trades /\ ReadAsNow(r, trades')
          /\ t.trade_id <= hist.pre_watermark =>
               \A r \in db'.tables[n] :
                 t.trade_id \in r.trades =>
                   /\ ReadAsNow(r, trades')
                   /\ n # "bot_health_metrics" => r.key = TradeKey(n, t) ]_vars

\* the trades of the sample behind a row grouped by pair or by strategy
TradesOfPair(k) == { t \in sample : t.pair = k }

TradesOfStrategy(k) == { t \in sample : t.strategy = k }

Wins(G) == { t \in G : t.profit_pct > 0 }

\* the trades of G with a realized loss, and those closed by the stop loss
Losses(G) == { t \in G : t.profit_abs < 0 }

StopLossExits(G) == { t \in G : t.exit_reason = "stop_loss" }

\* C15: profit_factor is 0 when the group has no losing volume; the per-pair
\* stop-loss effectiveness is 0 when the pair has no stop-loss exit; the
\* overall stop_loss_effectiveness_pct is 0 when there is no stop-loss exit or
\* no realized loss at all; volatility is 0 when the group has at most one
\* trade; and none of these columns is ever NULL.
C15_ZeroDenominatorGuards ==
  /\ computed.table = "strategy_performance" =>
       \A r \in computed.rows :
         /\ ~IsNull(r.profit_factor)
         /\ Losses(TradesOfStrategy(r.strategy_name)) = {} => IsZero(r.profit_factor)
  /\ computed.table = "stop_loss_analytics" =>
       \A r \in computed.rows :
         /\ ~IsNull(r.sl_effectiveness_pct)
         /\ StopLossExits(TradesOfPair(r.pair)) = {} => IsZero(r.sl_effectiveness_pct)
  /\ computed.table = "risk_metrics" =>
       \A r \in computed.rows :
         /\ ~IsNull(r.stop_loss_effectiveness_pct)
         /\ (StopLossExits(sample) = {} \/ Losses(sample) = {}) =>
              IsZero(r.stop_loss_effectiveness_pct)
  /\ computed.table = "pair_analytics" =>
       \A r \in computed.rows :
         /\ ~IsNull(r.volatility.sqrt_of)
         /\ Cardinality(TradesOfPair(r.pair)) <= 1 => IsZero(r.volatility.sqrt_of)

\* the sample trades that have a trade_duration within the given bounds
\* (lo exclusive, hi inclusive; NULL for no bound)
DurationWithin(lo, hi) ==
  { t \in sample : /\ t.trade_duration # NULL
                   /\ lo # NULL => lo < t.trade_duration
                   /\ hi # NULL => t.trade_duration <= hi }

\* the rows of category c count exactly the trades of S: one row if S has a
\* trade, none otherwise
CountedIn(c, S) ==
  LET R == { r \in computed.rows : r.duration_category = c }
  IN  IF S = {} THEN R = {}
      ELSE /\ Cardinality(R) = 1
           /\ \A r \in R : r.trade_count = Cardinality(S)

\* C16: every closed trade with a non-null trade_duration d is counted in
\* exactly one category: scalp if d <= 60, short_term if 60 < d <= 480,
\* day_trade if 480 < d <= 1440, swing_trade if d > 1440; the trade_count
\* values sum to the number of such trades.
C16_DurationBucketing ==
  computed.table = "duration_patterns" =>
    /\ CountedIn("scalp", DurationWithin(NULL, 60))
    /\ CountedIn("short_term", DurationWithin(60, 480))
    /\ CountedIn("day_trade", DurationWithin(480, 1440))
    /\ CountedIn("swing_trade", DurationWithin(1440, NULL))
    /\ \A r \in computed.rows :
         r.duration_category \in { "scalp", "short_term", "day_trade", "swing_trade" }
    /\ SUM([ r \in computed.rows |-> r.trade_count ], computed.rows)
         = Cardinality({ t \in sample : t.trade_duration # NULL })

\* durations 60 and 61 fall on the two sides of the first boundary, and a
\* trade without duration is in no category
C16_Witness ==
  /\ computed.table = "duration_patterns"
  /\ { t.trade_duration : t \in sample } = { 60, 61, NULL }
  /\ \E r \in computed.rows : r.duration_category = "scalp" /\ r.max_duration_minutes = 60
  /\ \E r \in computed.rows : r.duration_category = "short_term" /\ r.min_duration_minutes = 61

\* the overall status the thresholds give for the sample: n trades, w wins,
\* profit_pct summing to s tenths of a percent
ThresholdStatus ==
  LET n == Cardinality(sample)
      w == Cardinality(Wins(sample))
      s == SUM([ t \in sample |-> t.profit_pct ], sample)
  IN  IF 10 * w >= 7 * n /\ s >= 5 * n THEN "HEALTHY"
      ELSE IF 10 * w >= 5 * n /\ s >= 0 THEN "WARNING"
      ELSE "CRITICAL"

GaugeStatus(name) ==
  { r.health_status : r \in { x \in computed.rows : x.metric_name = name } }

RankedPairs(T) == { t.pair : t \in ClosedTrades(T) }

\* C18: after every successful cycle the rank_position values of the by_pair
\* rows of performance_rankings are exactly 1..N, without gap or repeat, N
\* being the number of pairs with at least one closed trade, and a row with a
\* strictly higher mean profit_pct has a strictly smaller rank_position.
C18_DenseRanking ==
  [][ CompletedStep =>
        LET R == db'.tables["performance_rankings"]
            N == Cardinality(RankedPairs(trades'))
        IN  /\ Cardinality(R) = N
            /\ { r.rank_position : r \in R } = 1..N
            /\ \A r, q \in R :
                 (AtLeast(r.profit_pct, q.profit_pct) /\ ~AtLeast(q.profit_pct, r.profit_pct))
                   => r.rank_position < q.rank_position ]_vars

\* the counters of row r are the partition of its group G into wins and the rest
PartitionedRow(r, G) ==
  /\ r.total_trades = Cardinality(G)
  /\ r.winning_trades = Cardinality(Wins(G))
  /\ r.losing_trades = Cardinality(G \ Wins(G))
  /\ r.winning_trades + r.losing_trades = r.total_trades
  /\ SameValue(r.win_rate, [ num |-> r.winning_trades, den |-> r.total_trades ])

\* C19: a closed trade is a win iff profit_pct > 0 and a loss otherwise
\* (profit_pct = 0 is a loss), so in every strategy_performance row and in
\* every pair_analytics row that has the two counters winning_trades +
\* losing_trades = total_trades and win_rate = winning_trades / total_trades.
C19_WinLossPartition ==
  /\ computed.table = "strategy_performance" =>
       \A r \in computed.rows : PartitionedRow(r, TradesOfStrategy(r.strategy_name))
  /\ (computed.table = "pair_analytics" /\ variant = "final") =>
       \A r \in computed.rows : PartitionedRow(r, TradesOfPair(r.pair))
  /\ (computed.table = "pair_analytics" /\ variant = "fixed") =>
       \A r \in computed.rows :
         SameValue(r.win_rate, [ num |-> Cardinality(Wins(TradesOfPair(r.pair))),
                                 den |-> r.total_trades ])

\* a pair row built from a win, a loss and a trade with profit_pct = 0
C19_Witness ==
  /\ computed.table = "pair_analytics"
  /\ variant = "final"
  /\ \E r \in computed.rows :
       /\ r.total_trades = 3 /\ r.winning_trades = 1 /\ r.losing_trades = 2
       /\ \E t \in TradesOfPair(r.pair) : t.profit_pct = 0

\* trade id is closed; it is aggregated into every table whose SELECT reads
\* all the closed trades
IsClosed(id) == \E t \in ClosedTrades(trades) : t.trade_id = id

IsAggregated(id) == \A n \in UnfilteredTables : id \in Aggregated(db.tables[n])

\* C20: if cycles keep running and no derivation fails, every trade that
\* becomes closed is eventually aggregated into the derived tables, also a
\* trade that closes after a trade with a larger trade_id has been processed.
C20_EventualInclusion ==
  \A id \in 1..MaxTrades : IsClosed(id) ~> IsAggregated(id)

\* the snapshot rows with status 'processing'
Processing(snaps) == { i \in 1..Len(snaps) : snaps[i].status = "processing" }

\* C21: no committed state of the snapshot table has a row with status
\* 'processing': every committed row is 'completed' or 'failed'.  A
\* 'processing' row exists only in the open transaction of the running
\* cycle, and it is the row that cycle inserted, which no commit has
\* persisted.
C21_NoVisibleInFlightSnapshot ==
  /\ \A i \in 1..Len(db.snapshots) :
       db.snapshots[i].status \in { "completed", "failed" }
  /\ \A i \in Processing(tx.snapshots) :
       /\ Locked
       /\ i = snapshot_id
       /\ i > Len(db.snapshots)

\* a cycle is running after an earlier one was committed: its snapshot is
\* 'processing' in the transaction, next to a committed snapshot
C21_Witness ==
  /\ pc = "derive"
  /\ done >= 1
  /\ Len(db.snapshots) >= 1
  /\ Len(tx.snapshots) = Len(db.snapshots) + 1
  /\ Processing(tx.snapshots) = { snapshot_id }

\* C22: from the same watermark and the same trade store, and with no trade
\* closing during the cycle, the count detector of the final variant and the
\* fetch detector of the fixed variant make the same run / no-op decision,
\* record the same records_processed and advance the watermark to the same
\* value: the two agree on every store and watermark the engine reaches, and
\* the cycle the running variant executes decides, records and advances as
\* the detector of the other variant would from its starting state.
C22_DetectorEquivalence ==
  [][ /\ count_detector(trades, watermark) = fetch_detector(trades, watermark)
      /\ (DetectionStep /\ faults' = faults) =>
            LET o == other_detector(variant, trades, watermark)
            IN  /\ (pc' = "process") = o.run
                /\ pc' = "process" => trade_count' = o.records_processed
                /\ pc' = "idle" => watermark' = o.watermark
      /\ (CompletedStep /\ ~hist.closed_since_detect) =>
            LET o == other_detector(variant, trades, watermark)
            IN  /\ o.run
                /\ LastSnapshot(db').records_processed = o.records_processed
                /\ LastSnapshot(db').last_trade_id = o.watermark
                /\ watermark' = o.watermark
    ]_vars

\* a second cycle has completed with no trade closing in it: it started
\* from watermark 1 with trades 1 and 2 closed, so the count detector took
\* the maximum over both and the fetch detector over trade 2 only
C22_Witness ==
  /\ pc = "idle"
  /\ hist.outcome = "completed"
  /\ ~hist.closed_since_detect
  /\ Len(db.snapshots) = 2
  /\ db.snapshots[1].status = "completed" /\ db.snapshots[1].last_trade_id = 1
  /\ db.snapshots[2].status = "completed" /\ db.snapshots[2].last_trade_id = 2
  /\ db.snapshots[2].records_processed = 1
  /\ watermark = 2

====
